---- MODULE Spec2Model ----
(***************************************************************************)
(* Model of StorageManager (protocol_clipboard/utils/storage.py): the      *)
(* file-backed store of models, protocols and versions.                    *)
(*                                                                         *)
(* Strings that the code parses or formats (version ids, file contents)    *)
(* are sequences of one-character strings, so that parsing, formatting,    *)
(* text encoding and newline translation are computed, not assumed.        *)
(* Model and protocol names are only compared by the code and stay atomic. *)
(***************************************************************************)
EXTENDS Integers, Sequences, FiniteSets, TLC

VARIABLES fs, last, linesep, ui

vars == <<fs, last, linesep, ui>>

(***************************************************************************)
(* Bounds of the model.                                                    *)
(***************************************************************************)
\* most version ids a protocol's index may list before create_new_version is no longer called
MaxVersions == 3
\* the same cap in the specifications with two protocols or with crashes
FewVersions == 2
\* longest stored versions list drawn in the initial states of IndexSpec
MaxLen == 3

(***************************************************************************)
(* Generic sequence helpers.                                               *)
(***************************************************************************)
Range(s) == {s[i] : i \in 1..Len(s)}

NoDup(s) == \A i, j \in 1..Len(s) : s[i] = s[j] => i = j

Count(x, s) == Cardinality({i \in 1..Len(s) : s[i] = x})

\* list.index(x): position of the first occurrence
IndexOf(x, s) == CHOOSE i \in 1..Len(s) : s[i] = x /\ \A j \in 1..(i - 1) : s[j] # x

\* list.remove(x): drop the first occurrence
RemoveFirst(x, s) ==
  LET i == IndexOf(x, s)
  IN SubSeq(s, 1, i - 1) \o SubSeq(s, i + 1, Len(s))

\* lst[lst.index(old)] = new
ReplaceFirst(old, new, s) == [s EXCEPT ![IndexOf(old, s)] = new]

EmptyFn == [x \in {} |-> <<>>]

(***************************************************************************)
(* Version ids: str.split('.'), int(), str(int) and _parse_version.        *)
(* Characters of an id are drawn from digits, ".", "-" and "x".            *)
(***************************************************************************)
Digits == <<"0", "1", "2", "3", "4", "5", "6", "7", "8", "9">>

IsDigit(c) == \E i \in 1..10 : Digits[i] = c

DigitVal(c) == (CHOOSE i \in 1..10 : Digits[i] = c) - 1

AllDigits(s) == Len(s) >= 1 /\ \A i \in 1..Len(s) : IsDigit(s[i])

\* int(s) succeeds: optional sign, then at least one digit
IntOk(s) ==
  \/ AllDigits(s)
  \/ Len(s) >= 2 /\ s[1] = "-" /\ AllDigits(SubSeq(s, 2, Len(s)))

RECURSIVE DigitsVal(_)
DigitsVal(s) ==
  IF s = <<>> THEN 0
  ELSE DigitsVal(SubSeq(s, 1, Len(s) - 1)) * 10 + DigitVal(s[Len(s)])

\* int(s) for a string on which it succeeds
IntVal(s) ==
  IF s[1] = "-" THEN 0 - DigitsVal(SubSeq(s, 2, Len(s))) ELSE DigitsVal(s)

RECURSIVE NatStr(_)
NatStr(n) ==
  IF n < 10 THEN <<Digits[n + 1]>>
  ELSE NatStr(n \div 10) \o <<Digits[(n % 10) + 1]>>

\* str(n) as used by an f-string
IntStr(n) == IF n < 0 THEN <<"-">> \o NatStr(0 - n) ELSE NatStr(n)

\* s.split('.')
RECURSIVE Split(_)
Split(s) ==
  IF \A i \in 1..Len(s) : s[i] # "."
  THEN <<s>>
  ELSE LET i == CHOOSE k \in 1..Len(s) : s[k] = "." /\ \A j \in 1..(k - 1) : s[j] # "."
       IN <<SubSeq(s, 1, i - 1)>> \o Split(SubSeq(s, i + 1, Len(s)))

\* _parse_version: (major, minor), (0, 0) when int() raises
_parse_version(version) ==
  LET parts == Split(version)
  IN IF ~IntOk(parts[1]) THEN <<0, 0>>
     ELSE IF Len(parts) > 1
          THEN IF IntOk(parts[2]) THEN <<IntVal(parts[1]), IntVal(parts[2])>>
               ELSE <<0, 0>>
          ELSE <<IntVal(parts[1]), 0>>

\* f"{major}.{minor}"
FormatVersion(major, minor) == IntStr(major) \o <<".">> \o IntStr(minor)

\* tuple comparison of Python: (a1, a2) < (b1, b2)
KeyLess(a, b) == a[1] < b[1] \/ (a[1] = b[1] /\ a[2] < b[2])

CharCode(c) ==
  IF c = "-" THEN 45 ELSE IF c = "." THEN 46
  ELSE IF IsDigit(c) THEN 48 + DigitVal(c) ELSE 120

\* a < b as Python compares two strings
RECURSIVE StrLess(_, _)
StrLess(a, b) ==
  IF b = <<>> THEN FALSE
  ELSE IF a = <<>> THEN TRUE
  ELSE IF a[1] # b[1] THEN CharCode(a[1]) < CharCode(b[1])
  ELSE StrLess(Tail(a), Tail(b))

\* mutant: sorted(versions) without the key, the ids compared as strings
InsertByString(s, x) ==
  LET later == {i \in 1..Len(s) : StrLess(x, s[i])}
      at == IF later = {} THEN Len(s) + 1
            ELSE CHOOSE i \in later : \A j \in later : i <= j
  IN SubSeq(s, 1, at - 1) \o <<x>> \o SubSeq(s, at, Len(s))

\* x placed before the first element whose key is greater: where a stable sort
\* puts an element that came last in the input
InsertByKey(s, x) ==
  LET later == {i \in 1..Len(s) : KeyLess(_parse_version(x), _parse_version(s[i]))}
      at == IF later = {} THEN Len(s) + 1
            ELSE CHOOSE i \in later : \A j \in later : i <= j
  IN SubSeq(s, 1, at - 1) \o <<x>> \o SubSeq(s, at, Len(s))

\* sorted(versions, key=self._parse_version): stable
RECURSIVE SortVersions(_)
SortVersions(s) ==
  IF s = <<>> THEN <<>>
  ELSE InsertByKey(SortVersions(SubSeq(s, 1, Len(s) - 1)), s[Len(s)])

V10 == <<"1", ".", "0">>

(***************************************************************************)
(* Text files: open(..., 'w', encoding='utf-8') / write_text / read_text.  *)
(* A text is a sequence of characters "a", "e'" (U+00E9), "CR", "LF"; a    *)
(* file holds bytes.  Writing encodes UTF-8 and turns "\n" into            *)
(* os.linesep; reading decodes and applies universal newlines.             *)
(***************************************************************************)
EncodeChar(c, ls) ==
  IF c = "LF" THEN (IF ls = "CRLF" THEN <<13, 10>> ELSE <<10>>)
  ELSE IF c = "CR" THEN <<13>>
  ELSE IF c = "e'" THEN <<195, 169>>
  ELSE <<97>>

RECURSIVE EncodeText(_, _)
EncodeText(t, ls) ==
  IF t = <<>> THEN <<>>
  ELSE EncodeChar(t[1], ls) \o EncodeText(SubSeq(t, 2, Len(t)), ls)

\* bytes.decode('utf-8') of bytes that EncodeText produced
RECURSIVE DecodeUtf8(_)
DecodeUtf8(b) ==
  IF b = <<>> THEN <<>>
  ELSE IF b[1] = 195 /\ Len(b) >= 2
       THEN <<"e'">> \o DecodeUtf8(SubSeq(b, 3, Len(b)))
       ELSE (IF b[1] = 13 THEN <<"CR">> ELSE IF b[1] = 10 THEN <<"LF">> ELSE <<"a">>)
            \o DecodeUtf8(SubSeq(b, 2, Len(b)))

\* universal newlines on reading: "\r\n" and "\r" become "\n"
RECURSIVE UniversalNewlines(_)
UniversalNewlines(t) ==
  IF t = <<>> THEN <<>>
  ELSE IF t[1] = "CR"
       THEN IF Len(t) >= 2 /\ t[2] = "LF"
            THEN <<"LF">> \o UniversalNewlines(SubSeq(t, 3, Len(t)))
            ELSE <<"LF">> \o UniversalNewlines(SubSeq(t, 2, Len(t)))
       ELSE <<t[1]>> \o UniversalNewlines(SubSeq(t, 2, Len(t)))

\* what read_text / f.read() returns for a file holding bytes b
read_text(b) == UniversalNewlines(DecodeUtf8(b))

\* what write_text / f.write() stores for text t
write_text(t, ls) == EncodeText(t, ls)

(***************************************************************************)
(* The directory tree under base_path.                                     *)
(*   fs.models, fs.modelsTmp          models.json, models.tmp              *)
(*   fs.dirs[m]                       <base>/<m>/                          *)
(*     .order, .orderTmp              order.json, order.tmp                *)
(*     .protos[p].legacy, .legacyTmp  <p>.txt, <p>.tmp                     *)
(*     .protos[p].dir                 <p>/ exists                          *)
(*     .protos[p].index, .indexTmp    <p>/versions.json, versions.tmp      *)
(*     .protos[p].files[v], .tmps[v]  <p>/<v>.txt, <p>/<v>.tmp (bytes)     *)
(* An index file is absent, partial (opened for writing and not yet        *)
(* completely written: empty or truncated JSON) or ok with its data.       *)
(***************************************************************************)
DefaultModels == <<"chatgpt", "claude", "copilot">>

ModelNames == {"chatgpt", "claude", "copilot"}

ProtoNames == {"p", "q"}

NoFile == [st |-> "absent", bytes |-> <<>>]

File(b) == [st |-> "ok", bytes |-> b]

NoList == [st |-> "absent", list |-> <<>>]

PartialList == [st |-> "partial", list |-> <<>>]

OkList(l) == [st |-> "ok", list |-> l]

NoIndex == [st |-> "absent", list |-> <<>>, cur |-> <<>>]

PartialIndex == [st |-> "partial", list |-> <<>>, cur |-> <<>>]

OkIndex(l, c) == [st |-> "ok", list |-> l, cur |-> c]

NoProto ==
  [legacy |-> NoFile, legacyTmp |-> NoFile, dir |-> FALSE,
   index |-> NoIndex, indexTmp |-> NoIndex, files |-> EmptyFn, tmps |-> EmptyFn]

NoDir ==
  [exists |-> FALSE, order |-> NoList, orderTmp |-> NoList,
   protos |-> [p \in ProtoNames |-> NoProto]]

\* the store right after StorageManager.__init__: base_path exists and is empty
EmptyStore ==
  [models |-> NoList, modelsTmp |-> NoList, dirs |-> [m \in ModelNames |-> NoDir]]

Proto(f, m, p) == f.dirs[m].protos[p]

\* the result of an operation: the file system after each of its system calls,
\* whether it succeeded, and the value it returned
Res(t, ok, out) == [trace |-> t, ok |-> ok, out |-> out]

End(f, t) == IF t = <<>> THEN f ELSE t[Len(t)]

(***************************************************************************)
(* Ordering records and model operations.                                  *)
(***************************************************************************)
_ensure_model_directory(f, m) == [f EXCEPT !.dirs[m].exists = TRUE]

\* mutant: writes models.json in place
save_models_inplace(f, models) ==
  LET s1 == [f EXCEPT !.models = PartialList]
      s2 == [s1 EXCEPT !.models = OkList(models)]
  IN <<s1, s2>>

save_models(f, models) ==
  LET s1 == [f EXCEPT !.modelsTmp = PartialList]
      s2 == [s1 EXCEPT !.modelsTmp = OkList(models)]
      s3 == [s2 EXCEPT !.models = s2.modelsTmp, !.modelsTmp = NoList]
  IN <<s1, s2, s3>>

save_protocol_order(f, m, protocols) ==
  LET s0 == _ensure_model_directory(f, m)
      s1 == [s0 EXCEPT !.dirs[m].orderTmp = PartialList]
      s2 == [s1 EXCEPT !.dirs[m].orderTmp = OkList(protocols)]
      s3 == [s2 EXCEPT !.dirs[m].order = s2.dirs[m].orderTmp,
                       !.dirs[m].orderTmp = NoList]
  IN <<s0, s1, s2, s3>>

RECURSIVE SeedDefaults(_, _)
SeedDefaults(f, names) ==
  IF names = <<>> THEN <<>>
  ELSE LET s0 == _ensure_model_directory(f, names[1])
           t == <<s0>> \o save_protocol_order(s0, names[1], <<>>)
       IN t \o SeedDefaults(End(f, t), Tail(names))

\* mutant: the sample models are seeded again when the stored list is empty
load_models_reseed(f) ==
  IF f.models.st = "absent" \/ (f.models.st = "ok" /\ f.models.list = <<>>)
  THEN LET t == save_models(f, DefaultModels)
       IN Res(t \o SeedDefaults(End(f, t), DefaultModels), TRUE, DefaultModels)
  ELSE IF f.models.st = "partial" THEN Res(<<>>, TRUE, <<>>)
  ELSE Res(<<>>, TRUE, f.models.list)

load_models(f) ==
  IF f.models.st = "absent"
  THEN LET t == save_models(f, DefaultModels)
       IN Res(t \o SeedDefaults(End(f, t), DefaultModels), TRUE, DefaultModels)
  ELSE IF f.models.st = "partial" THEN Res(<<>>, TRUE, <<>>)
  ELSE Res(<<>>, TRUE, f.models.list)

\* mutant: no check that the name is already present
add_model_nocheck(f, x) ==
  LET r == load_models(f)
      f1 == End(f, r.trace)
      t2 == save_models(f1, Append(r.out, x))
      s3 == _ensure_model_directory(End(f1, t2), x)
  IN Res(r.trace \o t2 \o <<s3>> \o save_protocol_order(s3, x, <<>>), TRUE, <<>>)

add_model(f, x) ==
  LET r == load_models(f)
      f1 == End(f, r.trace)
      t2 == save_models(f1, Append(r.out, x))
      s3 == _ensure_model_directory(End(f1, t2), x)
  IN IF x \in Range(r.out) THEN Res(r.trace, FALSE, <<>>)
     ELSE Res(r.trace \o t2 \o <<s3>> \o save_protocol_order(s3, x, <<>>), TRUE, <<>>)

\* the update of rename_model once both names have passed the checks
RenameModelBody(r, f1, old, new) ==
  IF f1.dirs[old].exists
  THEN IF f1.dirs[new].exists THEN Res(r.trace, FALSE, <<>>)
       ELSE LET s1 == [f1 EXCEPT !.dirs[new] = f1.dirs[old], !.dirs[old] = NoDir]
            IN Res(r.trace \o <<s1>> \o save_models(s1, ReplaceFirst(old, new, r.out)),
                   TRUE, <<>>)
  ELSE LET s1 == _ensure_model_directory(f1, new)
       IN Res(r.trace \o <<s1>> \o save_models(s1, ReplaceFirst(old, new, r.out)),
              TRUE, <<>>)

\* mutant: the new name gets a fresh directory, the old directory is not renamed
rename_model_fresh(f, old, new) ==
  LET r == load_models(f)
      f1 == End(f, r.trace)
      s1 == _ensure_model_directory(f1, new)
  IN IF old \notin Range(r.out) \/ new \in Range(r.out) THEN Res(r.trace, FALSE, <<>>)
     ELSE IF f1.dirs[old].exists /\ f1.dirs[new].exists THEN Res(r.trace, FALSE, <<>>)
     ELSE Res(r.trace \o <<s1>> \o save_models(s1, ReplaceFirst(old, new, r.out)),
              TRUE, <<>>)

\* mutant: no conflict check, neither on the order list nor on the directory
rename_model_force(f, old, new) ==
  LET r == load_models(f)
      f1 == End(f, r.trace)
      s1 == IF f1.dirs[old].exists
            THEN [f1 EXCEPT !.dirs[new] = f1.dirs[old], !.dirs[old] = NoDir]
            ELSE _ensure_model_directory(f1, new)
  IN IF old \notin Range(r.out) THEN Res(r.trace, FALSE, <<>>)
     ELSE Res(r.trace \o <<s1>> \o save_models(s1, ReplaceFirst(old, new, r.out)),
              TRUE, <<>>)

rename_model(f, old, new) ==
  LET r == load_models(f)
      f1 == End(f, r.trace)
  IN IF old \notin Range(r.out) THEN Res(r.trace, FALSE, <<>>)
     ELSE IF new \in Range(r.out) THEN Res(r.trace, FALSE, <<>>)
     ELSE RenameModelBody(r, f1, old, new)

\* mutant: the name is taken off the order, the directory tree is left
delete_model_keepdir(f, x) ==
  LET r == load_models(f)
      f1 == End(f, r.trace)
  IN IF x \notin Range(r.out) THEN Res(r.trace, FALSE, <<>>)
     ELSE Res(r.trace \o save_models(f1, RemoveFirst(x, r.out)), TRUE, <<>>)

delete_model(f, x) ==
  LET r == load_models(f)
      f1 == End(f, r.trace)
      t2 == save_models(f1, RemoveFirst(x, r.out))
      f2 == End(f1, t2)
      t3 == IF f2.dirs[x].exists THEN <<[f2 EXCEPT !.dirs[x] = NoDir]>> ELSE <<>>
  IN IF x \notin Range(r.out) THEN Res(r.trace, FALSE, <<>>)
     ELSE Res(r.trace \o t2 \o t3, TRUE, <<>>)

\* mutant: a missing order.json is reported as the empty order and not created
load_protocol_order_nocreate(f, m) ==
  IF f.dirs[m].order.st = "ok" THEN Res(<<>>, TRUE, f.dirs[m].order.list)
  ELSE Res(<<>>, TRUE, <<>>)

load_protocol_order(f, m) ==
  IF f.dirs[m].order.st = "absent"
  THEN LET s0 == _ensure_model_directory(f, m)
       IN Res(<<s0>> \o save_protocol_order(s0, m, <<>>), TRUE, <<>>)
  ELSE IF f.dirs[m].order.st = "partial" THEN Res(<<>>, TRUE, <<>>)
  ELSE Res(<<>>, TRUE, f.dirs[m].order.list)

\* save_protocol: the legacy flat file <p>.txt, through <p>.tmp
save_protocol(f, m, p, content, ls) ==
  LET s0 == _ensure_model_directory(f, m)
      s1 == [s0 EXCEPT !.dirs[m].protos[p].legacyTmp = File(<<>>)]
      s2 == [s1 EXCEPT !.dirs[m].protos[p].legacyTmp = File(write_text(content, ls))]
      s3 == [s2 EXCEPT !.dirs[m].protos[p].legacy = s2.dirs[m].protos[p].legacyTmp,
                       !.dirs[m].protos[p].legacyTmp = NoFile]
  IN <<s0, s1, s2, s3>>

\* mutant: the new protocol is put at the front of the order
add_protocol_front(f, m, p, ls) ==
  LET r == load_protocol_order(f, m)
      f1 == End(f, r.trace)
      t2 == save_protocol_order(f1, m, <<p>> \o r.out)
  IN IF p \in Range(r.out) THEN Res(r.trace, FALSE, <<>>)
     ELSE Res(r.trace \o t2 \o save_protocol(End(f1, t2), m, p, <<>>, ls), TRUE, <<>>)

add_protocol(f, m, p, ls) ==
  LET r == load_protocol_order(f, m)
      f1 == End(f, r.trace)
      t2 == save_protocol_order(f1, m, Append(r.out, p))
  IN IF p \in Range(r.out) THEN Res(r.trace, FALSE, <<>>)
     ELSE Res(r.trace \o t2 \o save_protocol(End(f1, t2), m, p, <<>>, ls), TRUE, <<>>)

\* the directory <m>/<old>/ renamed to <m>/<new>/: the legacy files beside it stay
MoveProtoDir(f, m, old, new) ==
  LET o == Proto(f, m, old)
      n == Proto(f, m, new)
  IN [f EXCEPT !.dirs[m].protos[new] =
                  [o EXCEPT !.legacy = n.legacy, !.legacyTmp = n.legacyTmp],
               !.dirs[m].protos[old] =
                  [NoProto EXCEPT !.legacy = o.legacy, !.legacyTmp = o.legacyTmp]]

\* shutil.rmtree of <m>/<p>/
RemoveProtoDir(f, m, p) ==
  LET o == Proto(f, m, p)
  IN [f EXCEPT !.dirs[m].protos[p] =
                  [NoProto EXCEPT !.legacy = o.legacy, !.legacyTmp = o.legacyTmp]]

rename_protocol(f, m, old, new, ls) ==
  LET r == load_protocol_order(f, m)
      f1 == End(f, r.trace)
      neworder == ReplaceFirst(old, new, r.out)
      moved == IF Proto(f1, m, old).dir
               THEN <<MoveProtoDir(f1, m, old, new)>>
               ELSE IF Proto(f1, m, old).legacy.st = "ok"
               THEN <<[f1 EXCEPT !.dirs[m].protos[new].legacy = Proto(f1, m, old).legacy,
                                 !.dirs[m].protos[old].legacy = NoFile]>>
               ELSE save_protocol(f1, m, new, <<>>, ls)
      blocked == IF Proto(f1, m, old).dir THEN Proto(f1, m, new).dir
                 ELSE Proto(f1, m, old).legacy.st = "ok"
                      /\ Proto(f1, m, new).legacy.st = "ok"
  IN IF old \notin Range(r.out) \/ new \in Range(r.out) THEN Res(r.trace, FALSE, <<>>)
     ELSE IF blocked THEN Res(r.trace, FALSE, <<>>)
     ELSE Res(r.trace \o moved \o save_protocol_order(End(f1, moved), m, neworder),
              TRUE, <<>>)

\* mutant: only the versioned directory is removed, the legacy file is left
delete_protocol_dironly(f, m, p) ==
  LET r == load_protocol_order(f, m)
      f1 == End(f, r.trace)
      t2 == save_protocol_order(f1, m, RemoveFirst(p, r.out))
      f2 == End(f1, t2)
      t3 == IF Proto(f2, m, p).dir THEN <<RemoveProtoDir(f2, m, p)>> ELSE <<>>
  IN IF p \notin Range(r.out) THEN Res(r.trace, FALSE, <<>>)
     ELSE Res(r.trace \o t2 \o t3, TRUE, <<>>)

delete_protocol(f, m, p) ==
  LET r == load_protocol_order(f, m)
      f1 == End(f, r.trace)
      t2 == save_protocol_order(f1, m, RemoveFirst(p, r.out))
      f2 == End(f1, t2)
      t3 == IF Proto(f2, m, p).dir THEN <<RemoveProtoDir(f2, m, p)>> ELSE <<>>
      f3 == End(f2, t3)
      t4 == IF Proto(f3, m, p).legacy.st = "ok"
            THEN <<[f3 EXCEPT !.dirs[m].protos[p].legacy = NoFile]>>
            ELSE <<>>
  IN IF p \notin Range(r.out) THEN Res(r.trace, FALSE, <<>>)
     ELSE Res(r.trace \o t2 \o t3 \o t4, TRUE, <<>>)

(***************************************************************************)
(* Version management.                                                     *)
(***************************************************************************)
Put(fn, k, val) == (k :> val) @@ fn

Drop(fn, k) == [x \in (DOMAIN fn) \ {k} |-> fn[x]]

\* protocol_dir.mkdir(parents=True, exist_ok=True)
MkProtoDir(f, m, p) ==
  [f EXCEPT !.dirs[m].exists = TRUE, !.dirs[m].protos[p].dir = TRUE]

\* version_file.write_text(content): the file is truncated, then written
WriteFileSteps(f, m, p, v, bytes) ==
  LET s1 == [f EXCEPT !.dirs[m].protos[p].files = Put(@, v, <<>>)]
      s2 == [s1 EXCEPT !.dirs[m].protos[p].files = Put(@, v, bytes)]
  IN <<s1, s2>>

\* with open(versions_file, 'w'): json.dump(...) straight into versions.json
WriteIndexInPlace(f, m, p, data) ==
  LET s1 == [f EXCEPT !.dirs[m].protos[p].index = PartialIndex]
      s2 == [s1 EXCEPT !.dirs[m].protos[p].index = data]
  IN <<s1, s2>>

\* versions.tmp written, then temp_file.replace(versions_file)
WriteIndexAtomic(f, m, p, data) ==
  LET s1 == [f EXCEPT !.dirs[m].protos[p].indexTmp = PartialIndex]
      s2 == [s1 EXCEPT !.dirs[m].protos[p].indexTmp = data]
      s3 == [s2 EXCEPT !.dirs[m].protos[p].index = s2.dirs[m].protos[p].indexTmp,
                       !.dirs[m].protos[p].indexTmp = NoIndex]
  IN <<s1, s2, s3>>

DefaultIndex == OkIndex(<<V10>>, V10)

\* mutant: the migration creates version 1.0 empty instead of copying the legacy text
EnsureBodyNoCopy(f, m, p, ls) ==
  LET s1 == MkProtoDir(f, m, p)
      t2 == WriteFileSteps(s1, m, p, V10, write_text(<<>>, ls))
      t3 == WriteIndexInPlace(End(s1, t2), m, p, DefaultIndex)
      s4 == [End(s1, t3) EXCEPT !.dirs[m].protos[p].legacy = NoFile]
  IN <<s1>> \o t2 \o t3 \o <<s4>>

\* mutant: the legacy file is deleted before version 1.0 is written
EnsureBodyDeleteFirst(f, m, p, ls) ==
  LET s1 == MkProtoDir(f, m, p)
      content == read_text(Proto(f, m, p).legacy.bytes)
      s2 == [s1 EXCEPT !.dirs[m].protos[p].legacy = NoFile]
      t3 == WriteFileSteps(s2, m, p, V10, write_text(content, ls))
  IN <<s1, s2>> \o t3 \o WriteIndexInPlace(End(s2, t3), m, p, DefaultIndex)

\* the two branches of ensure_protocol_versions once versions.json is known to be missing
EnsureBody(f, m, p, ls) ==
  LET s1 == MkProtoDir(f, m, p)
      content == read_text(Proto(f, m, p).legacy.bytes)
  IN IF Proto(f, m, p).legacy.st = "ok"
     THEN LET t2 == WriteFileSteps(s1, m, p, V10, write_text(content, ls))
              t3 == WriteIndexInPlace(End(s1, t2), m, p, DefaultIndex)
              s4 == [End(s1, t3) EXCEPT !.dirs[m].protos[p].legacy = NoFile]
          IN <<s1>> \o t2 \o t3 \o <<s4>>
     ELSE LET t2 == WriteFileSteps(s1, m, p, V10, write_text(<<>>, ls))
          IN <<s1>> \o t2 \o WriteIndexInPlace(End(s1, t2), m, p, DefaultIndex)

\* mutant: no early return when versions.json exists
ensure_protocol_versions_always(f, m, p, ls) == EnsureBody(f, m, p, ls)

ensure_protocol_versions(f, m, p, ls) ==
  IF Proto(f, m, p).index.st # "absent" THEN <<>>
  ELSE EnsureBody(f, m, p, ls)

list_versions(f, m, p) ==
  IF Proto(f, m, p).index.st = "ok" THEN SortVersions(Proto(f, m, p).index.list)
  ELSE <<>>

get_current_version(f, m, p) ==
  LET data == Proto(f, m, p).index
  IN IF data.st # "ok" THEN V10
     ELSE IF data.cur \notin Range(data.list) /\ data.list # <<>> THEN data.list[1]
     ELSE data.cur

\* mutant: reports success without rewriting the index
set_current_version_unsaved(f, m, p, version) ==
  LET data == Proto(f, m, p).index
  IN IF data.st # "ok" THEN Res(<<>>, FALSE, <<>>)
     ELSE IF version \notin Range(data.list) THEN Res(<<>>, FALSE, <<>>)
     ELSE Res(<<>>, TRUE, <<>>)

\* mutant: no check that the version is listed
set_current_version_nocheck(f, m, p, version) ==
  LET data == Proto(f, m, p).index
  IN IF data.st # "ok" THEN Res(<<>>, FALSE, <<>>)
     ELSE Res(WriteIndexAtomic(f, m, p, [data EXCEPT !.cur = version]), TRUE, <<>>)

set_current_version(f, m, p, version) ==
  LET data == Proto(f, m, p).index
  IN IF data.st # "ok" THEN Res(<<>>, FALSE, <<>>)
     ELSE IF version \notin Range(data.list) THEN Res(<<>>, FALSE, <<>>)
     ELSE Res(WriteIndexAtomic(f, m, p, [data EXCEPT !.cur = version]), TRUE, <<>>)

\* mutant: the minor number raised by two
NextVersionSkip(versions) ==
  LET mm == _parse_version(versions[Len(versions)])
  IN FormatVersion(mm[1], mm[2] + 2)

\* mutant: the candidate is computed from the first listed id, not the last
NextVersionOfFirst(versions) ==
  LET mm == _parse_version(versions[1])
      cand == FormatVersion(mm[1], mm[2] + 1)
  IN IF cand \in Range(versions) THEN FormatVersion(mm[1], mm[2] + 2) ELSE cand

\* the id create_new_version picks for a non-empty sorted list
NextVersion(versions) ==
  LET latest == versions[Len(versions)]
      mm == _parse_version(latest)
      cand == FormatVersion(mm[1], mm[2] + 1)
  IN IF cand \in Range(versions) THEN FormatVersion(mm[1], mm[2] + 2) ELSE cand

\* the text create_new_version copies; base is [given, id]
BaseContent(f, m, p, versions, base) ==
  LET files == Proto(f, m, p).files
      current == Proto(f, m, p).index.cur
  IN IF base.given /\ base.id # <<>> /\ base.id \in Range(versions)
     THEN IF base.id \in DOMAIN files THEN read_text(files[base.id]) ELSE <<>>
     ELSE IF ~base.given /\ versions # <<>>
     THEN IF current \in DOMAIN files THEN read_text(files[current]) ELSE <<>>
     ELSE <<>>

\* mutant: the index is replaced before the new version's file is written
create_new_version_indexfirst(f, m, p, base, ls) ==
  LET data == Proto(f, m, p).index
      versions == list_versions(f, m, p)
      new == NextVersion(versions)
      t1 == WriteIndexAtomic(f, m, p, [data EXCEPT !.list = Append(versions, new)])
      t2 == WriteFileSteps(End(f, t1), m, p, new,
                           write_text(BaseContent(f, m, p, versions, base), ls))
  IN IF data.st # "ok" THEN Res(<<>>, FALSE, <<>>)
     ELSE IF versions = <<>> THEN Res(<<>>, FALSE, <<>>)
     ELSE Res(t1 \o t2, TRUE, new)

create_new_version(f, m, p, base, ls) ==
  LET data == Proto(f, m, p).index
      versions == list_versions(f, m, p)
      new == NextVersion(versions)
      t1 == WriteFileSteps(f, m, p, new,
                           write_text(BaseContent(f, m, p, versions, base), ls))
      t2 == WriteIndexAtomic(End(f, t1), m, p,
                             [data EXCEPT !.list = Append(versions, new)])
  IN IF data.st # "ok" THEN Res(<<>>, FALSE, <<>>)
     ELSE IF versions = <<>> THEN Res(<<>>, FALSE, <<>>)
     ELSE Res(t1 \o t2, TRUE, new)

\* version is [given, id]: version=None reads the current version
read_version(f, m, p, version, ls) ==
  LET t == ensure_protocol_versions(f, m, p, ls)
      f1 == End(f, t)
      v == IF version.given THEN version.id ELSE get_current_version(f1, m, p)
      files == Proto(f1, m, p).files
  IN IF v \notin DOMAIN files THEN Res(t, TRUE, <<>>)
     ELSE Res(t, TRUE, read_text(files[v]))

write_version(f, m, p, version, content, ls) ==
  LET t == ensure_protocol_versions(f, m, p, ls)
      f1 == End(f, t)
      s1 == [f1 EXCEPT !.dirs[m].protos[p].tmps = Put(@, version, <<>>)]
      s2 == [s1 EXCEPT !.dirs[m].protos[p].tmps = Put(@, version, write_text(content, ls))]
      s3 == [s2 EXCEPT !.dirs[m].protos[p].files =
                          Put(@, version, Proto(s2, m, p).tmps[version]),
                       !.dirs[m].protos[p].tmps = Drop(@, version)]
  IN t \o <<s1, s2, s3>>

(***************************************************************************)
(* Calls.  last records the most recent call: the operation, its           *)
(* arguments, what it returned, whether it ran to completion (done) or the *)
(* process died part-way (crash), and whether the call before it was the   *)
(* same call with the same arguments (twice), and whether the call changed *)
(* anything on disk (changed), whether it ended by raising an exception to *)
(* its caller (raised), whether the model it names held version files when *)
(* it was called (held), and whether one of its system calls failed with   *)
(* an I/O error (failed).                                                  *)
(***************************************************************************)
None == [given |-> FALSE, id |-> <<>>]

Some(v) == [given |-> TRUE, id |-> v]

NoCall ==
  [op |-> "init", m |-> "", p |-> "", q |-> "", v |-> None, text |-> <<>>,
   ok |-> TRUE, out |-> <<>>, done |-> TRUE, twice |-> FALSE, changed |-> FALSE,
   raised |-> FALSE, held |-> FALSE, failed |-> FALSE]

\* the panels before any click: ProtocolsPanel.current_model/current_protocol/
\* current_version (pm, pp, pv) and its list widget (items), EditorPanel's
\* current_model/current_protocol/current_version (em, ep, ev), the text of
\* its QTextEdit, whether its single-shot autosave timer is running, and
\* whether the window has been closed.  None is "" (or the empty id).
\* pending is the text of the latest edit that no write_version has written
\* yet; save is the target of the latest _save_content and whether that
\* protocol was in its model's order when the call was made.
NoUi ==
  [pm |-> "", pp |-> "", pv |-> <<>>, items |-> <<>>,
   em |-> "", ep |-> "", ev |-> <<>>, text |-> <<>>, timer |-> FALSE,
   closed |-> FALSE,
   pending |-> [is |-> FALSE, text |-> <<>>],
   save |-> [m |-> "", p |-> "", v |-> <<>>, listed |-> TRUE]]

Call(op, m, p, q, v, text) ==
  [op |-> op, m |-> m, p |-> p, q |-> q, v |-> v, text |-> text,
   ok |-> TRUE, out |-> <<>>, done |-> TRUE,
   twice |-> (last.op = op /\ last.m = m /\ last.p = p /\ last.q = q
              /\ last.v = v /\ last.text = text /\ last.done),
   changed |-> FALSE, raised |-> FALSE,
   held |-> (m \in ModelNames
             /\ \E pp \in ProtoNames : Proto(fs, m, pp).files # EmptyFn),
   failed |-> FALSE]

\* the call ran to completion with result r
Returns(c, r) ==
  /\ fs' = End(fs, r.trace)
  /\ last' = [c EXCEPT !.ok = r.ok, !.out = r.out,
                       !.changed = (End(fs, r.trace) # fs)]
  /\ UNCHANGED <<linesep, ui>>

\* the process died after k < Len(trace) system calls of the call
Dies(c, trace) ==
  \E k \in 0..(Len(trace) - 1) :
    /\ fs' = (IF k = 0 THEN fs ELSE trace[k])
    /\ last' = [c EXCEPT !.done = FALSE, !.ok = FALSE, !.changed = (k > 0)]
    /\ UNCHANGED <<linesep, ui>>

\* system call k+1 of the call failed with an I/O error (disk full, permission
\* denied) after k < Len(trace) of them had succeeded, and the exception reached
\* the caller
Raises(c, trace) ==
  \E k \in 0..(Len(trace) - 1) :
    /\ fs' = (IF k = 0 THEN fs ELSE trace[k])
    /\ last' = [c EXCEPT !.raised = TRUE, !.failed = TRUE, !.ok = FALSE,
                         !.changed = (k > 0)]
    /\ UNCHANGED <<linesep, ui>>

\* system call k+1 of the call failed with an I/O error after k < Len(trace)
\* of them had succeeded.  The first n calls are made outside the try block
\* of the operation, so a failure there reaches the caller; the handler of the
\* try block logs a failure of the later ones and returns False (or None).
Swallows(c, n, trace) ==
  \E k \in 0..(Len(trace) - 1) :
    /\ fs' = (IF k = 0 THEN fs ELSE trace[k])
    /\ last' = [c EXCEPT !.failed = TRUE, !.ok = FALSE, !.raised = (k < n),
                         !.changed = (k > 0 /\ trace[k] # fs)]
    /\ UNCHANGED <<linesep, ui>>

LoadModels ==
  Returns(Call("load_models", "", "", "", None, <<>>), load_models(fs))

AddModel(x) ==
  Returns(Call("add_model", x, "", "", None, <<>>), add_model(fs, x))

RenameModel(old, new) ==
  Returns(Call("rename_model", old, "", new, None, <<>>), rename_model(fs, old, new))

DeleteModel(x) ==
  Returns(Call("delete_model", x, "", "", None, <<>>), delete_model(fs, x))

AddProtocol(m, p) ==
  Returns(Call("add_protocol", m, p, "", None, <<>>), add_protocol(fs, m, p, linesep))

RenameProtocol(m, old, new) ==
  Returns(Call("rename_protocol", m, old, new, None, <<>>),
          rename_protocol(fs, m, old, new, linesep))

DeleteProtocol(m, p) ==
  Returns(Call("delete_protocol", m, p, "", None, <<>>), delete_protocol(fs, m, p))

LoadProtocolOrder(m) ==
  Returns(Call("load_protocol_order", m, "", "", None, <<>>), load_protocol_order(fs, m))

SaveProtocol(m, p, content) ==
  Returns(Call("save_protocol", m, p, "", None, content),
          Res(save_protocol(fs, m, p, content, linesep), TRUE, <<>>))

EnsureProtocolVersions(m, p) ==
  Returns(Call("ensure_protocol_versions", m, p, "", None, <<>>),
          Res(ensure_protocol_versions(fs, m, p, linesep), TRUE, <<>>))

ListVersions(m, p) ==
  Returns(Call("list_versions", m, p, "", None, <<>>),
          Res(<<>>, TRUE, list_versions(fs, m, p)))

GetCurrentVersion(m, p) ==
  Returns(Call("get_current_version", m, p, "", None, <<>>),
          Res(<<>>, TRUE, get_current_version(fs, m, p)))

SetCurrentVersion(m, p, v) ==
  Returns(Call("set_current_version", m, p, "", Some(v), <<>>),
          set_current_version(fs, m, p, v))

\* not called once the index lists MaxVersions ids
CreateNewVersion(m, p, base) ==
  /\ Len(Proto(fs, m, p).index.list) < MaxVersions
  /\ Returns(Call("create_new_version", m, p, "", base, <<>>),
             create_new_version(fs, m, p, base, linesep))

\* not called once the index lists FewVersions ids
CreateFewVersions(m, p, base) ==
  /\ Len(Proto(fs, m, p).index.list) < FewVersions
  /\ CreateNewVersion(m, p, base)

ReadVersion(m, p, version) ==
  Returns(Call("read_version", m, p, "", version, <<>>),
          read_version(fs, m, p, version, linesep))

WriteVersion(m, p, v, content) ==
  Returns(Call("write_version", m, p, "", Some(v), content),
          Res(write_version(fs, m, p, v, content, linesep), TRUE, <<>>))

\* the process dies part-way through one of the operations that write an index
SaveModels(models) ==
  Returns(Call("save_models", "", "", "", None, models),
          Res(save_models(fs, models), TRUE, <<>>))

SaveProtocolOrder(m, protocols) ==
  Returns(Call("save_protocol_order", m, "", "", None, protocols),
          Res(save_protocol_order(fs, m, protocols), TRUE, <<>>))

CrashSaveModels(models) ==
  Dies(Call("save_models", "", "", "", None, models), save_models(fs, models))

CrashSaveProtocolOrder(m, protocols) ==
  Dies(Call("save_protocol_order", m, "", "", None, protocols),
       save_protocol_order(fs, m, protocols))

CrashSetCurrentVersion(m, p, v) ==
  Dies(Call("set_current_version", m, p, "", Some(v), <<>>),
       set_current_version(fs, m, p, v).trace)

CrashCreateNewVersion(m, p, base) ==
  /\ Len(Proto(fs, m, p).index.list) < FewVersions
  /\ Dies(Call("create_new_version", m, p, "", base, <<>>),
          create_new_version(fs, m, p, base, linesep).trace)

CrashEnsureProtocolVersions(m, p) ==
  Dies(Call("ensure_protocol_versions", m, p, "", None, <<>>),
       ensure_protocol_versions(fs, m, p, linesep))

\* an I/O error inside ensure_protocol_versions: logged and re-raised
EnsureProtocolVersionsIOError(m, p) ==
  Raises(Call("ensure_protocol_versions", m, p, "", None, <<>>),
         ensure_protocol_versions(fs, m, p, linesep))

\* read_version calls ensure_protocol_versions outside any try block: an I/O
\* error raised there passes through read_version
ReadVersionIOError(m, p, version) ==
  Raises(Call("read_version", m, p, "", version, <<>>),
         ensure_protocol_versions(fs, m, p, linesep))

\* the version file exists and cannot be read: the IOError is caught, "" returned
ReadVersionUnreadable(m, p, version) ==
  LET r == read_version(fs, m, p, version, linesep)
      f1 == End(fs, r.trace)
      v == IF version.given THEN version.id ELSE get_current_version(f1, m, p)
  IN /\ v \in DOMAIN Proto(f1, m, p).files
     /\ Returns(Call("read_version", m, p, "", version, <<>>), Res(r.trace, TRUE, <<>>))

\* I/O errors in the operations that write.  save_models, save_protocol_order
\* and write_version log and re-raise; add_model and add_protocol have no
\* handler; rename_model, delete_model, rename_protocol and delete_protocol
\* load the order outside their try block and catch (IOError, OSError) inside
\* it, returning False; create_new_version catches it and returns None.
SaveModelsIOError(models) ==
  Raises(Call("save_models", "", "", "", None, models), save_models(fs, models))

SaveProtocolOrderIOError(m, protocols) ==
  Raises(Call("save_protocol_order", m, "", "", None, protocols),
         save_protocol_order(fs, m, protocols))

WriteVersionIOError(m, p, v, content) ==
  Raises(Call("write_version", m, p, "", Some(v), content),
         write_version(fs, m, p, v, content, linesep))

AddModelIOError(x) ==
  Raises(Call("add_model", x, "", "", None, <<>>), add_model(fs, x).trace)

AddProtocolIOError(m, p) ==
  Raises(Call("add_protocol", m, p, "", None, <<>>), add_protocol(fs, m, p, linesep).trace)

RenameModelIOError(old, new) ==
  LET r == rename_model(fs, old, new)
  IN Swallows(Call("rename_model", old, "", new, None, <<>>),
              IF r.ok THEN Len(load_models(fs).trace) ELSE Len(r.trace), r.trace)

DeleteModelIOError(x) ==
  LET r == delete_model(fs, x)
  IN Swallows(Call("delete_model", x, "", "", None, <<>>),
              IF r.ok THEN Len(load_models(fs).trace) ELSE Len(r.trace), r.trace)

RenameProtocolIOError(m, old, new) ==
  LET r == rename_protocol(fs, m, old, new, linesep)
  IN Swallows(Call("rename_protocol", m, old, new, None, <<>>),
              IF r.ok THEN Len(load_protocol_order(fs, m).trace) ELSE Len(r.trace), r.trace)

DeleteProtocolIOError(m, p) ==
  LET r == delete_protocol(fs, m, p)
  IN Swallows(Call("delete_protocol", m, p, "", None, <<>>),
              IF r.ok THEN Len(load_protocol_order(fs, m).trace) ELSE Len(r.trace), r.trace)

CreateNewVersionIOError(m, p, base) ==
  /\ Len(Proto(fs, m, p).index.list) < FewVersions
  /\ Swallows(Call("create_new_version", m, p, "", base, <<>>), 0,
              create_new_version(fs, m, p, base, linesep).trace)

(***************************************************************************)
(* The panels of the main window.  Each handler runs to completion on the  *)
(* one UI thread; a handler's result is the store and the panel state it   *)
(* leaves.                                                                 *)
(***************************************************************************)
\* the texts the user types
EditTexts == {<<"a">>}

\* EditorPanel._save_content
_save_content(f, u, ls) ==
  IF u.em = "" \/ u.ep = "" \/ u.ev = <<>> THEN [f |-> f, u |-> u]
  ELSE [f |-> End(f, write_version(f, u.em, u.ep, u.ev, u.text, ls)),
        u |-> [u EXCEPT !.pending.is = (@ /\ u.pending.text # u.text),
                        !.save = [m |-> u.em, p |-> u.ep, v |-> u.ev,
                                  listed |-> u.ep \in Range(f.dirs[u.em].order.list)]]]

\* EditorPanel._on_protocol_selected once the outgoing text has been saved:
\* s is the store and panel state then, r the result of read_version
EditorShows(s, r, m, p, v) ==
  [f |-> End(s.f, r.trace),
   u |-> [s.u EXCEPT !.em = m, !.ep = p, !.ev = v, !.text = r.out]]

EditorLoads(s, m, p, v, ls) ==
  EditorShows(s, read_version(s.f, m, p, Some(v), ls), m, p, v)

\* EditorPanel._on_protocol_selected, the slot of signals.protocol_selected
EditorOnProtocolSelected(f, u, m, p, v, ls) ==
  EditorLoads(IF u.em # "" /\ u.ep # "" /\ u.ev # <<>>
                 /\ (u.em # m \/ u.ep # p \/ u.ev # v)
              THEN _save_content(f, u, ls)
              ELSE [f |-> f, u |-> u],
              m, p, v, ls)

\* ProtocolsPanel._on_protocol_selected once versioning is ensured (store f1)
\* and get_current_version has returned v
PanelEmitsSelected(f1, u, p, v, ls) ==
  EditorOnProtocolSelected(f1, [u EXCEPT !.pp = p, !.pv = v], u.pm, p, v, ls)

PanelSelects(f1, u, p, ls) ==
  PanelEmitsSelected(f1, u, p, get_current_version(f1, u.pm, p), ls)

\* ProtocolsPanel._on_protocol_selected
PanelOnProtocolSelected(f, u, p, ls) ==
  PanelSelects(End(f, ensure_protocol_versions(f, u.pm, p, ls)), u, p, ls)

\* the handler ran to completion and left store s.f and panel state s.u
Handles(c, s) ==
  /\ ~ui.closed
  /\ \E r \in {s} :
       /\ fs' = r.f
       /\ ui' = r.u
       /\ last' = [c EXCEPT !.changed = (r.f # fs)]
  /\ UNCHANGED linesep

\* ProtocolsPanel._on_model_changed: a model is clicked in the models panel
OnModelChanged(m) ==
  LET r == load_protocol_order(fs, m)
  IN Handles(Call("_on_model_changed", m, "", "", None, <<>>),
             [f |-> End(fs, r.trace),
              u |-> [ui EXCEPT !.pm = m, !.pp = "", !.items = r.out]])

\* itemClicked on row i of the protocol list
OnProtocolClicked(i) ==
  /\ ui.pm # ""
  /\ i \in 1..Len(ui.items)
  /\ Handles(Call("_on_protocol_selected", ui.pm, ui.items[i], "", None, <<>>),
             PanelOnProtocolSelected(fs, ui, ui.items[i], linesep))

\* EditorPanel._on_text_changed: the user changes the text to t
OnTextChanged(t) ==
  /\ ui.em # ""
  /\ t # ui.text
  /\ Handles(Call("_on_text_changed", ui.em, ui.ep, "", None, t),
             [f |-> fs,
              u |-> [ui EXCEPT !.text = t,
                               !.pending = [is |-> TRUE, text |-> t],
                               !.timer = (@ \/ (ui.em # "" /\ ui.ep # "" /\ ui.ev # <<>>))]])

\* the autosave timer fires 400 ms after the last edit
OnAutosaveTimeout ==
  /\ ui.timer
  /\ Handles(Call("_save_content", ui.em, ui.ep, "", None, ui.text),
             _save_content(fs, [ui EXCEPT !.timer = FALSE], linesep))

\* ProtocolsPanel._on_add_protocol with the name typed in the dialog
OnAddProtocol(name) ==
  /\ ui.pm # ""
  /\ \E r \in {add_protocol(fs, ui.pm, name, linesep)} :
     \E f1 \in {End(fs, r.trace)} :
       Handles([Call("_on_add_protocol", ui.pm, name, "", None, <<>>) EXCEPT !.ok = r.ok],
               IF r.ok
               THEN PanelOnProtocolSelected(
                      End(f1, ensure_protocol_versions(f1, ui.pm, name, linesep)),
                      [ui EXCEPT !.items = Append(@, name)], name, linesep)
               ELSE [f |-> f1, u |-> ui])

\* ProtocolsPanel._on_rename_protocol of row i to the name typed in the dialog
OnRenameProtocol(i, new) ==
  /\ ui.pm # ""
  /\ i \in 1..Len(ui.items)
  /\ new # ui.items[i]
  /\ \E r \in {rename_protocol(fs, ui.pm, ui.items[i], new, linesep)} :
     \E f1 \in {End(fs, r.trace)} :
     \E v \in {get_current_version(f1, ui.pm, new)} :
       Handles([Call("_on_rename_protocol", ui.pm, ui.items[i], new, None, <<>>)
                  EXCEPT !.ok = r.ok],
               IF ~r.ok THEN [f |-> f1, u |-> ui]
               ELSE IF ui.pp = ui.items[i]
               THEN EditorOnProtocolSelected(
                      f1, [ui EXCEPT !.items[i] = new, !.pp = new, !.pv = v],
                      ui.pm, new, v, linesep)
               ELSE [f |-> f1, u |-> [ui EXCEPT !.items[i] = new]])

\* ProtocolsPanel._on_delete_protocol with row i the list's current item
OnDeleteProtocol(i) ==
  /\ ui.pm # ""
  /\ i \in 1..Len(ui.items)
  /\ \E r \in {delete_protocol(fs, ui.pm, ui.items[i])} :
     \E f1 \in {End(fs, r.trace)} :
     \E rest \in {SubSeq(ui.items, 1, i - 1) \o SubSeq(ui.items, i + 1, Len(ui.items))} :
       Handles([Call("_on_delete_protocol", ui.pm, ui.items[i], "", None, <<>>)
                  EXCEPT !.ok = r.ok],
               IF ~r.ok THEN [f |-> f1, u |-> ui]
               ELSE IF rest # <<>>
               THEN PanelOnProtocolSelected(
                      f1, [ui EXCEPT !.items = rest],
                      rest[IF i < Len(rest) THEN i ELSE Len(rest)], linesep)
               ELSE [f |-> f1, u |-> [ui EXCEPT !.items = rest, !.pp = ""]])

\* ProtocolsPanel._on_add_version, while the protocol lists fewer than
\* FewVersions versions
OnAddVersion ==
  /\ ui.pm # ""
  /\ ui.pp # ""
  /\ Len(Proto(fs, ui.pm, ui.pp).index.list) < FewVersions
  /\ \E r \in {create_new_version(fs, ui.pm, ui.pp,
                                    IF ui.pv = <<>> THEN None ELSE Some(ui.pv), linesep)} :
       Handles([Call("_on_add_version", ui.pm, ui.pp, "", None, <<>>) EXCEPT !.ok = r.ok],
               IF r.ok
               THEN EditorOnProtocolSelected(End(fs, r.trace), [ui EXCEPT !.pv = r.out],
                                             ui.pm, ui.pp, r.out, linesep)
               ELSE [f |-> End(fs, r.trace), u |-> ui])

\* File > Exit or the window's close button: MainWindow has no closeEvent and
\* nothing calls EditorPanel.save_and_cleanup, so the event loop ends with
\* the timer still pending
OnClose ==
  Handles(Call("close", "", "", "", None, <<>>), [f |-> fs, u |-> [ui EXCEPT !.closed = TRUE]])

\* one model of the seeded store; protocols are added under one name and
\* renamed to the other
EditorNext ==
  \/ OnModelChanged("claude")
  \/ \E i \in 1..Len(ui.items) : OnProtocolClicked(i)
  \/ \E t \in EditTexts : OnTextChanged(t)
  \/ OnAutosaveTimeout
  \/ OnAddProtocol("p")
  \/ \E i \in 1..Len(ui.items), new \in ProtoNames : OnRenameProtocol(i, new)
  \/ \E i \in 1..Len(ui.items) : OnDeleteProtocol(i)
  \/ OnAddVersion
  \/ OnClose

(***************************************************************************)
(* Specifications.  All start from the store as the constructor leaves it, *)
(* except IndexSpec, which starts from a stored version index drawn from a *)
(* bounded set.  Those that store text with line endings run on either     *)
(* kind of platform (os.linesep).                                          *)
(***************************************************************************)
V11 == <<"1", ".", "1">>

V20 == <<"2", ".", "0">>

\* a non-ASCII text ending in a line feed, and a text with a carriage return;
\* the empty text is what add_protocol and a fresh protocol store
Texts == {<<"e'", "LF">>, <<"a", "CR">>}

Init ==
  /\ fs = EmptyStore
  /\ last = NoCall
  /\ ui = NoUi
  /\ linesep \in {"LF", "CRLF"}

\* the same store where no text with a line ending is ever written: os.linesep
\* has no effect on what is stored, one platform stands for both
InitLF ==
  /\ fs = EmptyStore
  /\ last = NoCall
  /\ ui = NoUi
  /\ linesep = "LF"

\* Spec: the protocols of one model and their version indexes
Next ==
  \E m \in {"claude"} :
    \/ \E p \in ProtoNames : AddProtocol(m, p)
    \/ \E p \in ProtoNames : \E q \in ProtoNames \ {p} : RenameProtocol(m, p, q)
    \/ \E p \in ProtoNames : DeleteProtocol(m, p)
    \/ \E p \in ProtoNames : EnsureProtocolVersions(m, p)
    \/ \E p \in ProtoNames : CreateFewVersions(m, p, None)
    \/ \E p \in ProtoNames, v \in {V10, V11} : SetCurrentVersion(m, p, v)
    \/ \E p \in ProtoNames : ReadVersion(m, p, None)
    \/ \E p \in ProtoNames : WriteVersion(m, p, V10, <<"a">>)

Spec == InitLF /\ [][Next]_vars

\* TextSpec: the version operations on one protocol, with the texts they store
TextNext ==
  \E m \in {"claude"}, p \in {"p"} :
    \/ AddProtocol(m, p)
    \/ \E c \in Texts : SaveProtocol(m, p, c)
    \/ EnsureProtocolVersions(m, p)
    \/ \E v \in {V10, V11, V20} : SetCurrentVersion(m, p, v)
    \/ \E b \in {None, Some(V10), Some(V20)} : CreateNewVersion(m, p, b)
    \/ \E v \in {None, Some(V10), Some(V11)} : ReadVersion(m, p, v)
    \/ \E v \in {V10, V11}, c \in Texts : WriteVersion(m, p, v, c)

TextSpec == Init /\ [][TextNext]_vars

\* ModelSpec: the model operations, with a protocol under the models
ModelNext ==
  \/ LoadModels
  \/ \E x \in ModelNames : AddModel(x)
  \/ \E a \in ModelNames, b \in ModelNames : RenameModel(a, b)
  \/ \E x \in ModelNames : DeleteModel(x)
  \/ \E m \in {"claude", "copilot"} : AddProtocol(m, "p")

ModelSpec == Init /\ [][ModelNext]_vars

\* CrashSpec: the operations that write an index, run to completion or
\* interrupted after any number of their system calls
ModelLists == {<<"claude">>, <<"copilot", "claude">>}

ProtoLists == {<<>>, <<"p">>}

CrashNext ==
  \E m \in {"claude"}, p \in {"p"} :
    \/ \E l \in ModelLists : SaveModels(l)
    \/ \E l \in ModelLists : CrashSaveModels(l)
    \/ \E l \in ProtoLists : SaveProtocolOrder(m, l)
    \/ \E l \in ProtoLists : CrashSaveProtocolOrder(m, l)
    \/ EnsureProtocolVersions(m, p)
    \/ CrashEnsureProtocolVersions(m, p)
    \/ \E v \in {V10, V11} : SetCurrentVersion(m, p, v)
    \/ \E v \in {V10, V11} : CrashSetCurrentVersion(m, p, v)
    \/ CreateFewVersions(m, p, None)
    \/ CrashCreateNewVersion(m, p, None)
    \/ AddProtocol(m, p)

CrashSpec == InitLF /\ [][CrashNext]_vars

\* LoadSpec: the model order, from a store where models.json is missing or is
\* an empty or undecodable file
LoadInit ==
  /\ fs \in {EmptyStore, [EmptyStore EXCEPT !.models = PartialList]}
  /\ last = NoCall
  /\ ui = NoUi
  /\ linesep = "LF"

LoadNext ==
  \/ LoadModels
  \/ \E x \in ModelNames : AddModel(x)
  \/ \E x \in ModelNames : DeleteModel(x)
  \/ AddProtocol("claude", "p")

LoadSpec == LoadInit /\ [][LoadNext]_vars

\* ScopeSpec: the protocol operations on two models that use the same
\* protocol names
ScopeNext ==
  \E m \in {"claude", "copilot"} :
    \/ \E p \in ProtoNames : AddProtocol(m, p)
    \/ \E p \in ProtoNames : \E q \in ProtoNames \ {p} : RenameProtocol(m, p, q)
    \/ \E p \in ProtoNames : DeleteProtocol(m, p)
    \/ WriteVersion(m, "p", V10, <<"a">>)

ScopeSpec == InitLF /\ [][ScopeNext]_vars

\* CarrySpec: the model operations on models that hold versioned protocols
CarryNext ==
  \/ LoadModels
  \/ \E x \in ModelNames : AddModel(x)
  \/ \E x \in ModelNames : DeleteModel(x)
  \/ \E a \in {"claude", "copilot"} :
       \E b \in {"claude", "copilot"} \ {a} : RenameModel(a, b)
  \/ AddProtocol("claude", "p")
  \/ WriteVersion("claude", "p", V10, <<"a">>)
  \/ CreateFewVersions("claude", "p", None)
  \/ SetCurrentVersion("claude", "p", V11)

CarrySpec == InitLF /\ [][CarryNext]_vars

\* FaultSpec: the version operations of one protocol where system calls may
\* fail with an I/O error
FaultNext ==
  \E m \in {"claude"}, p \in {"p"} :
    \/ AddProtocol(m, p)
    \/ DeleteProtocol(m, p)
    \/ EnsureProtocolVersions(m, p)
    \/ EnsureProtocolVersionsIOError(m, p)
    \/ \E v \in {None, Some(V10)} : ReadVersion(m, p, v)
    \/ \E v \in {None, Some(V10)} : ReadVersionIOError(m, p, v)
    \/ \E v \in {None, Some(V10)} : ReadVersionUnreadable(m, p, v)
    \/ WriteVersion(m, p, V10, <<"a">>)
    \/ WriteVersionIOError(m, p, V10, <<"a">>)
    \/ CreateFewVersions(m, p, None)
    \/ CreateNewVersionIOError(m, p, None)
    \/ SetCurrentVersion(m, p, V11)
    \/ SaveProtocolOrderIOError(m, <<p>>)
    \/ LoadProtocolOrder(m)
    \/ ListVersions(m, p)
    \/ GetCurrentVersion(m, p)

FaultSpec == InitLF /\ [][FaultNext]_vars

\* IndexSpec: list_versions on a stored versions list of arbitrary string ids
IdPool ==
  {<<"1", ".", "2">>, <<"1", ".", "1", "0">>, <<"1", ".", "1">>, <<"1", ".", "0", "1">>,
   <<"2">>, <<"x">>, <<"1", ".", "x">>, <<"-", "1", ".", "5">>}

RECURSIVE ListsUpTo(_)
ListsUpTo(n) ==
  IF n = 0 THEN {<<>>}
  ELSE LET shorter == ListsUpTo(n - 1)
       IN shorter \cup {Append(l, x) : l \in shorter, x \in IdPool}

\* the store holding claude/p with the given version index
StoreWithIndex(list, cur) ==
  [EmptyStore EXCEPT !.dirs["claude"].exists = TRUE,
                     !.dirs["claude"].protos["p"].dir = TRUE,
                     !.dirs["claude"].protos["p"].index = OkIndex(list, cur)]

\* a current pointer that names no listed version
V99 == <<"9", ".", "9">>

IndexInit ==
  /\ \E l \in ListsUpTo(MaxLen) :
       \E c \in (IF l = <<>> THEN {V10} ELSE {l[1], l[Len(l)], V99}) :
         fs = StoreWithIndex(l, c)
  /\ last = NoCall
  /\ ui = NoUi
  /\ linesep \in {"LF", "CRLF"}

IndexNext ==
  \/ ListVersions("claude", "p")
  \/ GetCurrentVersion("claude", "p")

IndexSpec == IndexInit /\ [][IndexNext]_vars

\* create_new_version on a stored index of any shape: absent (the directory
\* alone, or only the legacy file), truncated, or listing up to FewVersions ids
\* of IdPool; called while the index lists at most FewVersions ids
GrowVersions(m, p, base) ==
  /\ Len(Proto(fs, m, p).index.list) <= FewVersions
  /\ Returns(Call("create_new_version", m, p, "", base, <<>>),
             create_new_version(fs, m, p, base, linesep))

GrowVersionsIOError(m, p, base) ==
  /\ Len(Proto(fs, m, p).index.list) <= FewVersions
  /\ Swallows(Call("create_new_version", m, p, "", base, <<>>), 0,
              create_new_version(fs, m, p, base, linesep).trace)

VersionInit ==
  /\ \/ \E l \in ListsUpTo(FewVersions) :
          \E c \in (IF l = <<>> THEN {V10} ELSE {l[1], l[Len(l)], V99}) :
            fs = StoreWithIndex(l, c)
     \/ fs = [StoreWithIndex(<<>>, V10) EXCEPT
                !.dirs["claude"].protos["p"].index = PartialIndex]
     \/ fs = [StoreWithIndex(<<>>, V10) EXCEPT
                !.dirs["claude"].protos["p"].index = NoIndex]
     \/ fs = [EmptyStore EXCEPT !.dirs["claude"].exists = TRUE,
                                !.dirs["claude"].order = OkList(<<"p">>),
                                !.dirs["claude"].protos["p"].legacy = File(<<"a">>)]
  /\ last = NoCall
  /\ ui = NoUi
  /\ linesep = "LF"

VersionNext ==
  \/ GrowVersions("claude", "p", None)
  \/ GrowVersionsIOError("claude", "p", None)

VersionSpec == VersionInit /\ [][VersionNext]_vars

\* the store as the first load_models of the application leaves it
IOInit ==
  /\ fs = End(EmptyStore, load_models(EmptyStore).trace)
  /\ linesep = "LF"
  /\ last = NoCall
  /\ ui = NoUi

\* the model operations, each of which may have one of its system calls fail:
\* one model and the model renamed to it
ModelIONext ==
  \/ LoadModels
  \/ AddModel("claude")
  \/ AddModelIOError("claude")
  \/ DeleteModel("claude")
  \/ DeleteModelIOError("claude")
  \/ RenameModel("copilot", "claude")
  \/ RenameModelIOError("copilot", "claude")
  \/ SaveModelsIOError(<<"claude">>)
  \/ AddProtocol("copilot", "p")

\* every store operation on a protocol, with the process allowed to die
\* part-way through ensure_protocol_versions and create_new_version
ListedNext ==
  \E m \in {"claude"} :
    \/ AddProtocol(m, "p")
    \/ \E p \in ProtoNames : \E q \in ProtoNames \ {p} : RenameProtocol(m, p, q)
    \/ \E p \in ProtoNames : DeleteProtocol(m, p)
    \/ EnsureProtocolVersions(m, "p")
    \/ CrashEnsureProtocolVersions(m, "p")
    \/ CreateFewVersions(m, "p", None)
    \/ CrashCreateNewVersion(m, "p", None)
    \/ SetCurrentVersion(m, "p", V11)
    \/ ReadVersion(m, "p", None)
    \/ WriteVersion(m, "p", V11, <<"a">>)

ListedSpec == InitLF /\ [][ListedNext]_vars

\* a legacy file with a text, its migration, and the process dying part-way
\* through the migration, on either platform
MigrateNext ==
  \E m \in {"claude"}, p \in {"p"} :
    \/ AddProtocol(m, p)
    \/ DeleteProtocol(m, p)
    \/ \E c \in Texts : SaveProtocol(m, p, c)
    \/ EnsureProtocolVersions(m, p)
    \/ CrashEnsureProtocolVersions(m, p)
    \/ ReadVersion(m, p, None)

MigrateSpec == Init /\ [][MigrateNext]_vars

EditorSpec == IOInit /\ [][EditorNext]_vars

ModelIOSpec == IOInit /\ [][ModelIONext]_vars

\* the protocol operations of one model, each of which may have one of its
\* system calls fail: one protocol and its new name
ProtoIONext ==
  \/ AddProtocol("claude", "p")
  \/ AddProtocolIOError("claude", "p")
  \/ DeleteProtocol("claude", "p")
  \/ DeleteProtocolIOError("claude", "p")
  \/ RenameProtocol("claude", "p", "q")
  \/ RenameProtocolIOError("claude", "p", "q")
  \/ WriteVersion("claude", "p", V10, <<"a">>)

ProtoIOSpec == IOInit /\ [][ProtoIONext]_vars

(***************************************************************************)
(* Properties.                                                             *)
(***************************************************************************)
V12 == <<"1", ".", "2">>

V110 == <<"1", ".", "1", "0">>

\* C1: add_model(x) called twice in a row returns false the second time and
\* leaves x exactly once in the model order; no add_model, rename_model or
\* delete_model ever leaves the same name twice in the model order.
NoDuplicateModels ==
  [][/\ NoDup(fs'.models.list)
     /\ (last'.op = "add_model" /\ last'.twice)
          => (~last'.ok /\ Count(last'.m, fs'.models.list) = 1)]_vars

\* the second of two add_model calls for the same name has returned false,
\* with other models listed beside it
AddedTwice ==
  /\ last.op = "add_model" /\ last.twice /\ ~last.ok
  /\ Count(last.m, fs.models.list) = 1
  /\ Len(fs.models.list) >= 2

\* C2: rename_model(a, b) with b already in the stored model order returns
\* false and leaves a's directory tree and models.json as they were.
RenameConflictChangesNothing ==
  [][(last'.op = "rename_model" /\ fs.models.st = "ok"
      /\ last'.q \in Range(fs.models.list))
       => (/\ ~last'.ok
           /\ fs'.dirs[last'.m] = fs.dirs[last'.m]
           /\ fs'.models = fs.models)]_vars

\* a rename onto another listed model was refused while the renamed model
\* had a protocol in its directory
RenameRefused ==
  /\ last.op = "rename_model" /\ ~last.ok /\ last.m # last.q
  /\ {last.m, last.q} \subseteq Range(fs.models.list)
  /\ fs.dirs[last.m].protos["p"].legacy.st = "ok"
  /\ fs.dirs[last.m].order.list = <<"p">>

\* C3: list_versions returns a permutation of the stored versions list in
\* ascending order of the parsed (major, minor) pairs, numerically: 1.2, 1.10,
\* 1.1 come back as 1.1, 1.2, 1.10, and an id that does not parse sorts as (0, 0).
ListVersionsNumeric ==
  last.op = "list_versions" =>
    LET stored == Proto(fs, "claude", "p").index.list
        out == last.out
    IN /\ Len(out) = Len(stored)
       /\ \A x \in Range(stored) \cup Range(out) : Count(x, out) = Count(x, stored)
       /\ \A i, j \in 1..Len(out) :
            i < j => ~KeyLess(_parse_version(out[j]), _parse_version(out[i]))
       /\ stored = <<V12, V110, V11>> => out = <<V11, V12, V110>>
       /\ stored = <<<<"2">>, <<"x">>>> => out = <<<<"x">>, <<"2">>>>
       /\ stored = <<<<"1", ".", "x">>, <<"-", "1", ".", "5">>>>
            => out = <<<<"-", "1", ".", "5">>, <<"1", ".", "x">>>>
       /\ last.ok /\ last.done

\* list_versions has returned 1.1, 1.2, 1.10 for the stored list 1.2, 1.10, 1.1
ListedNumerically ==
  /\ last.op = "list_versions"
  /\ Proto(fs, "claude", "p").index.list = <<V12, V110, V11>>
  /\ last.out = <<V11, V12, V110>>

\* C4: create_new_version without base_version on an index whose highest id
\* is (M, n) returns "M.(n+1)" (1.0, 1.1 give 1.2), creates that version's
\* file with the text of the current version, appends the id to the index's
\* versions, and changes neither the current pointer nor a listed version's file.
CreateNewVersionCopiesCurrent ==
  [][(/\ last'.op = "create_new_version" /\ ~last'.v.given
      /\ Proto(fs, last'.m, last'.p).index.st = "ok"
      /\ Proto(fs, last'.m, last'.p).index.list # <<>>)
       => LET old == Proto(fs, last'.m, last'.p)
              new == Proto(fs', last'.m, last'.p)
              keys == {_parse_version(x) : x \in Range(old.index.list)}
              top == CHOOSE k \in keys : \A o \in keys : ~KeyLess(k, o)
              id == last'.out
          IN /\ last'.ok
             /\ id = IntStr(top[1]) \o <<".">> \o IntStr(top[2] + 1)
             /\ old.index.list = <<V10, V11>> => id = V12
             /\ id \in DOMAIN new.files
             /\ read_text(new.files[id])
                  = read_version(fs, last'.m, last'.p, None, linesep).out
             /\ new.index.list = Append(old.index.list, id)
             /\ new.index.cur = old.index.cur
             /\ \A v \in Range(old.index.list) \cap DOMAIN old.files :
                  v \in DOMAIN new.files /\ new.files[v] = old.files[v]]_vars

\* version 1.2 has been created from the versions 1.0, 1.1 with 1.1 current,
\* holding a text that version 1.0 does not hold
CreatedThird ==
  /\ last.op = "create_new_version" /\ ~last.v.given /\ last.ok /\ last.out = V12
  /\ Proto(fs, "claude", "p").index = OkIndex(<<V10, V11, V12>>, V11)
  /\ Proto(fs, "claude", "p").files[V12] # <<>>
  /\ Proto(fs, "claude", "p").files[V12] = Proto(fs, "claude", "p").files[V11]
  /\ Proto(fs, "claude", "p").files[V12] # Proto(fs, "claude", "p").files[V10]

\* C5: ensure_protocol_versions called twice in a row: the second call leaves
\* the disk exactly as the first call left it.
EnsureIdempotent ==
  [][(last'.op = "ensure_protocol_versions" /\ last'.twice) => fs' = fs]_vars

\* the second of two ensure_protocol_versions calls has returned, the first
\* having migrated a legacy file with a non-empty text
EnsuredTwice ==
  /\ last.op = "ensure_protocol_versions" /\ last.twice
  /\ Proto(fs, "claude", "p").index = DefaultIndex
  /\ Proto(fs, "claude", "p").legacy.st = "absent"
  /\ DOMAIN Proto(fs, "claude", "p").files = {V10}
  /\ Proto(fs, "claude", "p").files[V10] # <<>>

\* C6: ensure_protocol_versions on a protocol with no versions.json: with a
\* legacy file holding text c it ends with 1.0.txt holding c, the index
\* {versions: ["1.0"], current: "1.0"} and no legacy file; with no legacy
\* file it ends with an empty 1.0.txt and the same index.
MigrationKeepsText ==
  [][(/\ last'.op = "ensure_protocol_versions"
      /\ Proto(fs, last'.m, last'.p).index.st = "absent")
       => LET old == Proto(fs, last'.m, last'.p)
              new == Proto(fs', last'.m, last'.p)
          IN /\ new.index = OkIndex(<<V10>>, V10)
             /\ V10 \in DOMAIN new.files
             /\ new.legacy.st = "absent"
             /\ IF old.legacy.st = "ok"
                THEN read_text(new.files[V10]) = read_text(old.legacy.bytes)
                ELSE new.files[V10] = <<>>]_vars

\* ensure_protocol_versions has just migrated a legacy file with a non-empty text
Migrated ==
  /\ last.op = "ensure_protocol_versions" /\ last.changed
  /\ Proto(fs, "claude", "p").index = DefaultIndex
  /\ Proto(fs, "claude", "p").legacy.st = "absent"
  /\ Proto(fs, "claude", "p").files[V10] # <<>>

\* C7: write_version(m, p, v, content) followed at once by read_version(m, p, v)
\* returns exactly content.
WriteReadRoundTrip ==
  [][(/\ last.op = "write_version" /\ last'.op = "read_version"
      /\ last'.m = last.m /\ last'.p = last.p /\ last'.v = last.v)
       => last'.out = last.text]_vars

\* the index file that a call rewrites
TargetIndex(f, c) ==
  IF c.op = "save_models" THEN f.models
  ELSE IF c.op = "save_protocol_order" THEN f.dirs[c.m].order
  ELSE Proto(f, c.m, c.p).index

\* what the call is to leave in that index file, given what the file held
NewIndex(old, c) ==
  IF c.op \in {"save_models", "save_protocol_order"} THEN OkList(c.text)
  ELSE IF c.op = "set_current_version" THEN [old EXCEPT !.cur = c.v.id]
  ELSE [old EXCEPT !.list = Append(old.list, c.out)]

\* C8: save_models, save_protocol_order, set_current_version and
\* create_new_version interrupted before their replace step leave the index
\* file at its real path exactly as it was; run to completion they leave the
\* complete new content there; a failed call leaves it as it was.
IndexRewriteIsAtomic ==
  [][last'.op \in {"save_models", "save_protocol_order",
                   "set_current_version", "create_new_version"}
       => LET old == TargetIndex(fs, last')
              new == TargetIndex(fs', last')
          IN IF last'.done /\ last'.ok
             THEN new.st = "ok" /\ new = NewIndex(old, last')
             ELSE new = old]_vars

\* set_current_version was interrupted with versions.tmp half written, the
\* index still complete and pointing at another version
InterruptedBeforeReplace ==
  /\ last.op = "set_current_version" /\ ~last.done
  /\ Proto(fs, "claude", "p").indexTmp.st = "partial"
  /\ Proto(fs, "claude", "p").index.st = "ok"
  /\ last.v.id \in Range(Proto(fs, "claude", "p").index.list)
  /\ Proto(fs, "claude", "p").index.cur # last.v.id

\* C9: whatever operation is interrupted, and wherever, no index file at a
\* real path (models.json, order.json, versions.json) is left half written.
NoHalfWrittenIndex ==
  /\ fs.models.st # "partial"
  /\ \A m \in ModelNames :
       /\ fs.dirs[m].order.st # "partial"
       /\ \A p \in ProtoNames : fs.dirs[m].protos[p].index.st # "partial"

\* the version index is well formed: current is listed, no id is listed
\* twice, every id is the canonical form of its parsed pair
IndexOk(idx) ==
  idx.st = "ok" =>
    /\ idx.list # <<>> => idx.cur \in Range(idx.list)
    /\ NoDup(idx.list)
    /\ \A i \in 1..Len(idx.list) :
         LET mm == _parse_version(idx.list[i])
         IN IntStr(mm[1]) \o <<".">> \o IntStr(mm[2]) = idx.list[i]

AllIndexesOk(f) ==
  \A m \in ModelNames, p \in ProtoNames : IndexOk(f.dirs[m].protos[p].index)

\* C10: in every state reached by ensure_protocol_versions, create_new_version,
\* set_current_version, write_version, read_version and rename_protocol (with
\* add_protocol and delete_protocol), every versions.json is well formed; and
\* it stays so when a model that has a directory is then renamed to a name made
\* free by delete_model.
VersionIndexWellFormed ==
  /\ AllIndexesOk(fs)
  /\ \A a \in {m \in ModelNames : fs.dirs[m].exists} : \A b \in ModelNames \ {a} :
       LET r == rename_model(End(fs, delete_model(fs, b).trace), a, b)
       IN r.ok /\ AllIndexesOk(End(fs, r.trace))

\* both protocols of the model are versioned, one renamed from the other's
\* old name, with two versions and the second one current
TwoVersionedProtocols ==
  /\ last.op = "rename_protocol" /\ last.ok
  /\ Proto(fs, "claude", "q").index = OkIndex(<<V10, V11>>, V11)
  /\ Proto(fs, "claude", "p").dir = FALSE

\* the text of version v of a protocol as read_version reads it from its file
TextOf(pr, v) == IF v \in DOMAIN pr.files THEN read_text(pr.files[v]) ELSE <<>>

\* C11: the version create_new_version creates holds the text of base_version
\* when that is given and listed, and otherwise (not given, or given but not
\* listed) the text of the protocol's current version.
NewVersionTakesBaseOrCurrent ==
  [][(last'.op = "create_new_version" /\ last'.ok)
       => LET old == Proto(fs, last'.m, last'.p)
              base == last'.v
              from == IF base.given /\ base.id \in Range(old.index.list)
                      THEN base.id
                      ELSE get_current_version(fs, last'.m, last'.p)
          IN TextOf(Proto(fs', last'.m, last'.p), last'.out) = TextOf(old, from)]_vars

\* C12: when the stored current pointer names no listed version,
\* get_current_version returns the first id of list_versions, whatever the
\* order in which the ids are stored.
CurrentFallsBackToFirstSorted ==
  LET idx == Proto(fs, "claude", "p").index
  IN (last.op = "get_current_version" /\ idx.st = "ok"
      /\ idx.list # <<>> /\ idx.cur \notin Range(idx.list))
       => last.out = list_versions(fs, "claude", "p")[1]

\* C13: set_current_version returns false and leaves the store as it was when
\* versions.json is absent, empty or unparsable, or the version is not listed;
\* otherwise it returns true, get_current_version then returns the version, and
\* the versions list and every version file are unchanged.
SetCurrentVersionChecked ==
  [][(last'.op = "set_current_version" /\ last'.done)
       => LET old == Proto(fs, last'.m, last'.p)
              new == Proto(fs', last'.m, last'.p)
          IN IF old.index.st # "ok" \/ last'.v.id \notin Range(old.index.list)
             THEN ~last'.ok /\ fs' = fs
             ELSE /\ last'.ok
                  /\ get_current_version(fs', last'.m, last'.p) = last'.v.id
                  /\ new.index.list = old.index.list
                  /\ new.files = old.files]_vars

\* the pointer has been moved from 1.0 to the listed version 1.1
PointerMoved ==
  /\ last.op = "set_current_version" /\ last.done /\ last.ok /\ last.changed
  /\ Proto(fs, "claude", "p").index = OkIndex(<<V10, V11>>, V11)

\* C14: read_version never raises to its caller, whatever fails underneath: it
\* returns the text of the version file or the empty text.
ReadVersionNeverRaises ==
  last.op = "read_version"
    => LET pr == Proto(fs, last.m, last.p)
           v == IF last.v.given THEN last.v.id
                ELSE get_current_version(fs, last.m, last.p)
       IN ~last.raised /\ last.out \in {<<>>, TextOf(pr, v)}

\* write_version left versions.json, list_versions and the files of the other
\* versions of the protocol as they were
IndexAndOthersKept(f, g, m, p, v) ==
  LET old == Proto(f, m, p)
      new == Proto(g, m, p)
  IN /\ new.index = old.index
     /\ list_versions(g, m, p) = list_versions(f, m, p)
     /\ v \notin Range(old.index.list) => v \notin Range(list_versions(g, m, p))
     /\ \A w \in (DOMAIN old.files) \ {v} :
          w \in DOMAIN new.files /\ new.files[w] = old.files[w]

\* C15: write_version on a protocol that has a version index leaves
\* versions.json, list_versions and the other versions' files unchanged, also
\* for an unlisted version, and read_version of that version then returns the
\* content written.
WriteVersionKeepsIndex ==
  [][(last'.op = "write_version" /\ Proto(fs, last'.m, last'.p).index.st # "absent")
       => /\ IndexAndOthersKept(fs, fs', last'.m, last'.p, last'.v.id)
          /\ read_version(fs', last'.m, last'.p, last'.v, linesep).out = last'.text]_vars

\* C16: load_models returns the stored names in stored order and changes
\* nothing once models.json exists, also when the stored list is empty; it
\* returns the empty list, without raising or touching the file, when
\* models.json is empty or undecodable; when models.json is absent it writes
\* the three sample names, each with an empty protocol order, and returns them.
LoadModelsContract ==
  [][last'.op = "load_models"
       => /\ ~last'.raised
          /\ fs.models.st = "ok" => (last'.out = fs.models.list /\ fs' = fs)
          /\ fs.models.st = "partial" => (last'.out = <<>> /\ fs' = fs)
          /\ fs.models.st = "absent"
               => /\ last'.out = DefaultModels
                  /\ fs'.models = OkList(DefaultModels)
                  /\ \A m \in Range(DefaultModels) :
                       fs'.dirs[m].exists /\ fs'.dirs[m].order = OkList(<<>>)]_vars

\* every model has been deleted and load_models has returned the empty list
\* without seeding the sample names again
NotSeededAgain ==
  /\ last.op = "load_models" /\ last.out = <<>> /\ ~last.changed
  /\ fs.models = OkList(<<>>)

\* C17: add_protocol returns false and changes nothing when the protocol is
\* already in the model's order, and otherwise appends it at the end of that
\* order; add_protocol, rename_protocol and delete_protocol on one model change
\* nothing under any other model, also one with a protocol of the same name.
ProtocolOpsScoped ==
  [][last'.op \in {"add_protocol", "rename_protocol", "delete_protocol"}
       => /\ \A m2 \in ModelNames \ {last'.m} : fs'.dirs[m2] = fs.dirs[m2]
          /\ last'.op = "add_protocol"
               => LET order == load_protocol_order(fs, last'.m).out
                  IN IF last'.p \in Range(order)
                     THEN ~last'.ok /\ fs' = fs
                     ELSE /\ last'.ok
                          /\ fs'.dirs[last'.m].order = OkList(Append(order, last'.p))]_vars

\* p was added to copilot after q, while claude has a versioned protocol p
\* holding text
SameNameInTwoModels ==
  /\ last.op = "add_protocol" /\ last.m = "copilot" /\ last.p = "p" /\ last.ok
  /\ fs.dirs["copilot"].order = OkList(<<"q", "p">>)
  /\ "p" \in Range(fs.dirs["claude"].order.list)
  /\ Proto(fs, "claude", "p").index.st = "ok"
  /\ TextOf(Proto(fs, "claude", "p"), V10) = <<"a">>

\* C18: delete_model returns false when the model is not in the order; when it
\* returns true the model is off the order, the other models keep their
\* relative order, nothing is left of its directory, and after a later
\* add_model of the same name the protocol order is empty and read_version
\* returns the empty text for every protocol.
DeleteModelLeavesNothing ==
  [][last'.op = "delete_model"
       => LET m == last'.m
              listed == load_models(fs).out
              again == add_model(fs', m)
              g == End(fs', again.trace)
          IN IF m \notin Range(listed) THEN ~last'.ok
             ELSE /\ last'.ok
                  /\ fs'.models = OkList(SelectSeq(listed, LAMBDA x : x # m))
                  /\ fs'.dirs[m] = NoDir
                  /\ again.ok
                  /\ load_protocol_order(g, m).out = <<>>
                  /\ \A p \in ProtoNames :
                       read_version(g, m, p, None, linesep).out = <<>>]_vars

\* a model that held version files has been deleted, another model is still
\* listed
DeletedModelThatHeldFiles ==
  /\ last.op = "delete_model" /\ last.ok /\ last.held
  /\ fs.dirs[last.m] = NoDir
  /\ fs.models.list # <<>>

\* what the read operations return under model new in store g is what they
\* returned under model old in store f, and no directory is left under old
Carried(f, g, old, new) ==
  /\ load_protocol_order(g, new).out = load_protocol_order(f, old).out
  /\ \A p \in ProtoNames :
       /\ list_versions(g, new, p) = list_versions(f, old, p)
       /\ get_current_version(g, new, p) = get_current_version(f, old, p)
       /\ \A v \in {V10, V11, V12} :
            read_version(g, new, p, Some(v), linesep).out
              = read_version(f, old, p, Some(v), linesep).out
  /\ ~g.dirs[old].exists

\* C19 as stated: rename_model(old, new) with old in the model order and new
\* not in it returns true, puts new where old was, and carries the model's
\* data over to new.
RenameModelAlwaysCarries ==
  [][(last'.op = "rename_model" /\ fs.models.st = "ok"
      /\ last'.m \in Range(fs.models.list) /\ last'.q \notin Range(fs.models.list))
       => /\ last'.ok
          /\ fs'.models = OkList(ReplaceFirst(last'.m, last'.q, fs.models.list))
          /\ Carried(fs, fs', last'.m, last'.q)]_vars

\* C19 amended: as stated when no directory exists under new; when both old
\* and new have a directory, rename_model returns false and changes nothing.
RenameModelCarriesData ==
  [][(last'.op = "rename_model" /\ fs.models.st = "ok"
      /\ last'.m \in Range(fs.models.list) /\ last'.q \notin Range(fs.models.list))
       => /\ ~fs.dirs[last'.q].exists
               => /\ last'.ok
                  /\ fs'.models = OkList(ReplaceFirst(last'.m, last'.q, fs.models.list))
                  /\ Carried(fs, fs', last'.m, last'.q)
          /\ (fs.dirs[last'.q].exists /\ fs.dirs[last'.m].exists)
               => (~last'.ok /\ fs' = fs)]_vars

\* claude was renamed to copilot: its two versions, the pointer and the text
\* are under copilot, which stands where claude stood in the order
ModelRenamedWithData ==
  /\ last.op = "rename_model" /\ last.ok /\ last.m = "claude" /\ last.q = "copilot"
  /\ fs.models = OkList(<<"chatgpt", "copilot">>)
  /\ Proto(fs, "copilot", "p").index = OkIndex(<<V10, V11>>, V11)
  /\ TextOf(Proto(fs, "copilot", "p"), V10) = <<"a">>
  /\ fs.dirs["claude"] = NoDir

\* rename_protocol(m, old, new) returned true, new stands where old stood in
\* the order, and what old held is under new: the version index and files of a
\* versioned old, the text of a legacy old, an empty protocol when old had
\* neither
RenamedProtocol(f, g, c) ==
  LET o == Proto(f, c.m, c.p)
      n == Proto(g, c.m, c.q)
      now == read_version(g, c.m, c.q, None, linesep).out
  IN /\ c.ok
     /\ g.dirs[c.m].order = OkList(ReplaceFirst(c.p, c.q, f.dirs[c.m].order.list))
     /\ o.dir => (n.index = o.index /\ n.files = o.files)
     /\ (~o.dir /\ o.legacy.st = "ok") => now = read_text(o.legacy.bytes)
     /\ (~o.dir /\ o.legacy.st # "ok") => now = <<>>

\* C20: rename_protocol(m, old, new) with old in m's order and new not in it
\* succeeds for each on-disk shape of old (versioned directory, legacy file,
\* neither), makes old's content available under new and puts new at old's
\* place in the order.
RenameProtocolThreeShapes ==
  [][(last'.op = "rename_protocol" /\ fs.dirs[last'.m].order.st = "ok"
      /\ last'.p \in Range(fs.dirs[last'.m].order.list)
      /\ last'.q \notin Range(fs.dirs[last'.m].order.list))
       => RenamedProtocol(fs, fs', last')]_vars

\* C21: after delete_protocol returns true neither the protocol's directory
\* nor its legacy file exists, whichever existed before, the protocol is off
\* the model's order, and add_protocol of the same name followed by
\* read_version returns the empty text.
DeleteProtocolRemovesBoth ==
  [][(last'.op = "delete_protocol" /\ last'.ok)
       => LET m == last'.m
              p == last'.p
              again == add_protocol(fs', m, p, linesep)
              g == End(fs', again.trace)
          IN /\ ~Proto(fs', m, p).dir
             /\ Proto(fs', m, p).files = EmptyFn
             /\ Proto(fs', m, p).index.st = "absent"
             /\ Proto(fs', m, p).legacy.st = "absent"
             /\ p \notin Range(fs'.dirs[m].order.list)
             /\ again.ok
             /\ read_version(g, m, p, None, linesep).out = <<>>]_vars

\* the only protocol that held version files has been deleted, the other
\* protocol of the model is still listed
DeletedProtocolThatHeldFiles ==
  /\ last.op = "delete_protocol" /\ last.ok /\ last.held /\ last.p = "p"
  /\ \A pp \in ProtoNames : Proto(fs, "claude", pp).files = EmptyFn
  /\ fs.dirs["claude"].order = OkList(<<"q">>)

\* C22: an I/O failure of a system call inside save_models,
\* save_protocol_order, write_version, add_model, add_protocol, rename_model,
\* delete_model, rename_protocol or delete_protocol reaches the caller as an
\* exception and is never turned into an ordinary return value.
WriteFailuresReRaised ==
  (last.failed
   /\ last.op \in {"save_models", "save_protocol_order", "write_version",
                   "add_model", "add_protocol", "rename_model", "delete_model",
                   "rename_protocol", "delete_protocol"})
    => last.raised

\* C23: create_new_version never raises to its caller; when the version
\* index is absent (also when only the legacy file exists), empty or
\* unparsable, lists no version, or a read or write of the call fails, it
\* returns None and versions.json is left as it was.
CreateNewVersionNeverRaises ==
  [][last'.op = "create_new_version"
       => LET pr == Proto(fs, last'.m, last'.p)
          IN /\ ~last'.raised
             /\ (pr.index.st # "ok" \/ pr.index.list = <<>> \/ last'.failed)
                  => ~last'.ok
             /\ ~last'.ok
                  => /\ last'.out = <<>>
                     /\ Proto(fs', last'.m, last'.p).index = pr.index]_vars

\* a write of create_new_version failed after the new version's file was made
NewVersionFailedPartWay ==
  /\ last.op = "create_new_version" /\ last.failed /\ last.changed /\ ~last.ok
  /\ Proto(fs, "claude", "p").index.st = "ok"
  /\ \E v \in DOMAIN Proto(fs, "claude", "p").files :
       v \notin Range(Proto(fs, "claude", "p").index.list)

\* old is the stored list, sorted its sorted form, new the id returned and
\* now the list stored afterwards
FirstCandidate(sorted) ==
  LET mm == _parse_version(sorted[Len(sorted)])
  IN FormatVersion(mm[1], mm[2] + 1)

NewIdGrows(old, sorted, new, now) ==
  /\ old # <<>>
  /\ \A i \in 1..Len(old) : KeyLess(_parse_version(old[i]), _parse_version(new))
  /\ new \notin Range(old)
  /\ new = FirstCandidate(sorted)
  /\ now = Append(sorted, new)
  /\ Len(now) = Len(old) + 1
  /\ SortVersions(now) = now

\* C27: for every non-empty stored list of ids, the id a successful
\* create_new_version returns is above every listed id in the (major, minor)
\* order and is not in the list, it is the first candidate (minor + 1, the
\* skip to minor + 2 is not taken), and the stored list becomes the sorted
\* old list with the new id appended, which is itself sorted.
NewIdAboveAll ==
  [][(last'.op = "create_new_version" /\ last'.ok)
       => NewIdGrows(Proto(fs, last'.m, last'.p).index.list,
                     list_versions(fs, last'.m, last'.p),
                     last'.out,
                     Proto(fs', last'.m, last'.p).index.list)]_vars

\* a version was created on a list stored out of order whose ids have minors
\* of one and of two digits
NewIdOnOddList ==
  /\ last.op = "create_new_version" /\ last.ok
  /\ last.out = <<"1", ".", "1", "1">>
  /\ Proto(fs, "claude", "p").index.list
       = <<<<"1", ".", "2">>, <<"1", ".", "1", "0">>, <<"1", ".", "1", "1">>>>

\* C24: a read of an index that does not exist creates the default one:
\* load_protocol_order with no order.json creates it with the empty list and
\* returns that list, and list_versions, get_current_version and read_version
\* on a protocol with no versions.json leave behind the index
\* {versions: ["1.0"], current: "1.0"}.
EveryReadVivifies ==
  [][(last'.done /\ ~last'.raised)
       => /\ (last'.op = "load_protocol_order"
               /\ fs.dirs[last'.m].order.st = "absent")
               => /\ fs'.dirs[last'.m].order = OkList(<<>>)
                  /\ last'.out = <<>>
          /\ (last'.op \in {"list_versions", "get_current_version", "read_version"}
               /\ Proto(fs, last'.m, last'.p).index.st = "absent")
               => Proto(fs', last'.m, last'.p).index = DefaultIndex]_vars

\* C24 as the code has it: load_protocol_order and read_version create the
\* missing index; list_versions and get_current_version create nothing and
\* return the empty list and "1.0".
ReadVersionAndOrderVivify ==
  [][(last'.done /\ ~last'.raised)
       => /\ (last'.op = "load_protocol_order"
               /\ fs.dirs[last'.m].order.st = "absent")
               => /\ fs'.dirs[last'.m].order = OkList(<<>>)
                  /\ last'.out = <<>>
          /\ (last'.op = "read_version"
               /\ Proto(fs, last'.m, last'.p).index.st = "absent")
               => Proto(fs', last'.m, last'.p).index = DefaultIndex
          /\ (last'.op \in {"list_versions", "get_current_version"}
               /\ Proto(fs, last'.m, last'.p).index.st = "absent")
               => /\ fs' = fs
                  /\ last'.out = (IF last'.op = "list_versions" THEN <<>> ELSE V10)]_vars

\* read_version has just created the default index of a protocol that had none
ReadCreatedDefaultIndex ==
  /\ last.op = "read_version" /\ last.changed /\ ~last.raised
  /\ Proto(fs, "claude", "p").index = DefaultIndex
  /\ fs.dirs["claude"].order.st = "ok"

\* C25: every edit made while a target is selected is written with
\* write_version to that target; in particular once the window has been
\* closed no edit is left unwritten, also one made less than 400 ms before.
EveryEditSaved == ui.closed => ~ui.pending.is

\* C30: every write_version the editor issues targets a protocol that is in
\* its model's protocol order at the time of the call, and once the delete or
\* rename of the protocol open in the editor has been handled, with the
\* protocol_selected it emits, nothing exists under the old name.
EditorWritesOnlyListed ==
  [][/\ ui'.save.listed
     /\ (last'.op \in {"_on_delete_protocol", "_on_rename_protocol"} /\ last'.ok
         /\ ui.ep = last'.p /\ ui.em = last'.m)
         => Proto(fs', last'.m, last'.p) = NoProto]_vars

\* C26: in every state reached through store operations, also where the
\* process died between two file-system steps of ensure_protocol_versions or
\* create_new_version, every version id listed in a protocol's versions.json
\* has a content file in the protocol's directory.
ListedVersionsHaveFiles ==
  \A m \in ModelNames, p \in ProtoNames :
    Proto(fs, m, p).index.st = "ok"
      => \A i \in 1..Len(Proto(fs, m, p).index.list) :
           Proto(fs, m, p).index.list[i] \in DOMAIN Proto(fs, m, p).files

\* the process died in create_new_version after the new version's file was
\* written and before the index listed it
DiedBeforeListing ==
  /\ last.op = "create_new_version" /\ ~last.done /\ last.changed
  /\ Proto(fs, "claude", "p").index = OkIndex(<<V10>>, V10)
  /\ V11 \in DOMAIN Proto(fs, "claude", "p").files
  /\ Proto(fs, "claude", "p").indexTmp.st = "absent"

\* old is the protocol before the interrupted migration, new what the crash
\* left, got what read_version returns after the restart
CrashKept(old, new, got) ==
  /\ \/ new.legacy.st = "ok" /\ new.legacy.bytes = old.legacy.bytes
     \/ V10 \in DOMAIN new.files /\ TextOf(new, V10) = read_text(old.legacy.bytes)
  /\ got = read_text(old.legacy.bytes)

\* C28: when ensure_protocol_versions dies between two of its file-system
\* steps while migrating a legacy file with text c, c is still stored whole
\* in the legacy file or in 1.0.txt, and read_version(m, p) after the
\* restart returns c.
MigrationCrashKeepsText ==
  [][(/\ last'.op = "ensure_protocol_versions" /\ ~last'.done
      /\ Proto(fs, last'.m, last'.p).index.st = "absent"
      /\ Proto(fs, last'.m, last'.p).legacy.st = "ok")
       => CrashKept(Proto(fs, last'.m, last'.p), Proto(fs', last'.m, last'.p),
                    read_version(fs', last'.m, last'.p, None, linesep).out)]_vars

\* the migration died with versions.json written and the legacy file, which
\* holds a text, not yet deleted
DiedBeforeLegacyDeleted ==
  /\ last.op = "ensure_protocol_versions" /\ ~last.done
  /\ Proto(fs, "claude", "p").index = DefaultIndex
  /\ Proto(fs, "claude", "p").legacy.st = "ok"
  /\ Proto(fs, "claude", "p").legacy.bytes # <<>>
  /\ V10 \in DOMAIN Proto(fs, "claude", "p").files

\* C29: whenever delete_model, delete_protocol, rename_model or
\* rename_protocol returns false, for a name not found, a conflict or an I/O
\* failure part-way, the orders, directories and files are as before the call.
FalseMeansUnchanged ==
  [][(/\ last'.op \in {"delete_model", "delete_protocol", "rename_model",
                       "rename_protocol"}
      /\ last'.done /\ ~last'.raised /\ ~last'.ok)
       => fs' = fs]_vars

====
